---------------------------- MODULE Spec2Model ----------------------------
(***************************************************************************)
(* Make MCP server: startup, and the list-tools and call-tool handlers.     *)
(*                                                                         *)
(* The repository holds two revisions of the server entry point:           *)
(*   src/src/index.ts      (build "index")                                 *)
(*   src/unnamed/part_000  (build "part_000")                              *)
(* They differ in the check of the trigger status, in the normalisation of *)
(* the retrieved output and in the validation of MAKE_TEAM.  The variable  *)
(* build says which revision runs; every handler is modelled for both.     *)
(*                                                                         *)
(* Strings the handlers take apart (tool names) are sequences of one       *)
(* character strings.  Strings they only copy are TLA+ strings.  A message *)
(* built by a template literal is the sequence of its parts, so that       *)
(* "the message includes X" is "X is one of its parts".                    *)
(***************************************************************************)
EXTENDS Integers, Sequences, FiniteSets, TLC

VARIABLES
    build,   \* which revision of the entry point runs
    env,     \* process.env: the variables that are set, with their values
    phase,   \* "starting", "fatal", "connecting", "connectFailed", or "connected"
             \* once server.connect(transport) has resolved
    config,  \* teamId, resultsApiUrl, resultsApiSecretKey (module constants)
    call,    \* call-tool handler: the locals of each invocation
    net,     \* call-tool handler: remote calls issued and answers, per invocation
    list,    \* list-tools handler: the locals of the request
    lnet     \* list-tools handler: remote calls issued and answers

vars == <<build, env, phase, config, call, net, list, lnet>>

---------------------------------------------------------------------------
(* Bounds *)

\* Concurrent call-tool invocations.
MaxInv == 1
\* Call-tool invocations that interleave at their awaits.
MaxInterleaved == 2
\* Largest scenario id whose tool name is derived and called.
MaxScenarioId == 120
\* Longest scenario list that listScenarios returns.
MaxScenarios == 3
\* Most on-demand scenarios in a list: the width of the fan-out.
MaxOnDemand == 2

Inv == 1..MaxInv

Interleaved == 1..MaxInterleaved

Builds == {"index", "part_000"}

---------------------------------------------------------------------------
(* Values *)

NoValue == [none |-> TRUE]

\* Parts of a message built by a template literal.
Lit(s) == [lit |-> s]
Str(s) == [str |-> s]
Chars(c) == [chars |-> c]
Num(n) == [num |-> n]
NaN == [nan |-> TRUE]

Includes(message, part) == \E k \in 1..Len(message) : message[k] = part

IncludesAll(message, parts) ==
    \E k \in 0..(Len(message) - Len(parts)) :
        SubSeq(message, k + 1, k + Len(parts)) = parts

\* Thrown values.
McpError(code, message) == [kind |-> "McpError", code |-> code, message |-> message]
JsError(message) == [kind |-> "Error", message |-> message]
Thrown(text) == [kind |-> "value", text |-> text]

\* What a remote call can reject with: an Error, or a value that is no Error.
Rejections ==
    { JsError(<<Str("connect ECONNREFUSED")>>), Thrown("aborted") }

\* String(error)
StringOf(err) ==
    CASE err.kind = "Error" -> <<Lit("Error: ")>> \o err.message
      [] err.kind = "McpError" -> <<Lit("McpError: ")>> \o err.message
      [] OTHER -> <<Str(err.text)>>

---------------------------------------------------------------------------
(* Tool names *)

Prefix == <<"r","u","n","_","s","c","e","n","a","r","i","o","_">>

DigitChars == <<"0","1","2","3","4","5","6","7","8","9">>

IsDigit(c) == \E d \in 1..Len(DigitChars) : DigitChars[d] = c

DigitValue(c) == (CHOOSE d \in 1..Len(DigitChars) : DigitChars[d] = c) - 1

\* `${n}` of a non-negative integer.
RECURSIVE NumberToString(_)
NumberToString(n) ==
    IF n < Len(DigitChars)
    THEN <<DigitChars[n + 1]>>
    ELSE NumberToString(n \div Len(DigitChars)) \o <<DigitChars[(n % Len(DigitChars)) + 1]>>

\* `run_scenario_${scenario.id}`
ToolName(id) == Prefix \o NumberToString(id)

\* /^run_scenario_/.test(name): the name pattern with its \d+$ left out.
ToolNameRegexTestPrefixOnly(name) ==
    /\ Len(name) >= Len(Prefix)
    /\ SubSeq(name, 1, Len(Prefix)) = Prefix

\* /^run_scenario_\d+$/.test(name)
ToolNameRegexTest(name) ==
    /\ Len(name) > Len(Prefix)
    /\ SubSeq(name, 1, Len(Prefix)) = Prefix
    /\ \A k \in (Len(Prefix) + 1)..Len(name) : IsDigit(name[k])

\* name.substring(12): the text from the last character of the prefix on.
Substring12(name) == SubSeq(name, Len(Prefix), Len(name))

\* name.substring(13)
Substring13(name) == SubSeq(name, Len(Prefix) + 1, Len(name))

\* The longest prefix of s made of decimal digits.
RECURSIVE DigitPrefix(_)
DigitPrefix(s) ==
    IF s = <<>> \/ ~IsDigit(Head(s)) THEN <<>> ELSE <<Head(s)>> \o DigitPrefix(Tail(s))

RECURSIVE DigitsValue(_)
DigitsValue(s) ==
    IF s = <<>> THEN 0
    ELSE DigitsValue(SubSeq(s, 1, Len(s) - 1)) * Len(DigitChars) + DigitValue(s[Len(s)])

\* parseInt(s) for a string that starts with neither white space, a sign nor 0x:
\* the value of its leading digits, NaN when it has none.
ParseInt(s) == IF DigitPrefix(s) = <<>> THEN NaN ELSE Num(DigitsValue(DigitPrefix(s)))

ScenarioIds == {7, 12, 305, 4000}

InvalidNames ==
    { <<"n","o","t","_","a","_","v","a","l","i","d","_","n","a","m","e">>,
      Prefix,
      Prefix \o <<"7","x">>,
      <<"x">> \o Prefix \o <<"7">>,
      <<"R","U","N","_","s","c","e","n","a","r","i","o","_","7">> }

\* The names a caller sends: derived names of one and of three digits, one with
\* a leading zero, and names the pattern refuses.
ToolNames ==
    {ToolName(id) : id \in {7, 305}} \cup {Prefix \o <<"0","7">>} \cup InvalidNames

---------------------------------------------------------------------------
(* JSON values and JSON.stringify(value, null, 2) *)

Undefined == [undefined |-> TRUE]

JNull == [t |-> "null"]
JBool(b) == [t |-> "bool", b |-> b]
JNum(n) == [t |-> "num", n |-> n]
JStr(s) == [t |-> "str", s |-> s]
JArr(items) == [t |-> "arr", items |-> items]
JObj(members) == [t |-> "obj", members |-> members]
Member(k, v) == [k |-> k, v |-> v]

\* value[key] of a parsed JSON value that is not null: the member of an object
\* (the last one of that key), undefined for anything else.
Property(value, key) ==
    IF value.t = "obj" /\ \E m \in 1..Len(value.members) : value.members[m].k = key
    THEN LET last == CHOOSE m \in 1..Len(value.members) :
                        /\ value.members[m].k = key
                        /\ \A n \in (m + 1)..Len(value.members) : value.members[n].k # key
         IN value.members[last].v
    ELSE Undefined

RECURSIVE Stringify(_, _)
RECURSIVE StringifyItems(_, _)
RECURSIVE StringifyMembers(_, _)

\* The items of an array, one per line at indentation ind, separated by commas.
StringifyItems(items, ind) ==
    IF Len(items) = 1
    THEN ind \o Stringify(items[1], ind)
    ELSE ind \o Stringify(items[1], ind) \o ",\n" \o StringifyItems(Tail(items), ind)

\* The members of an object, one per line at indentation ind, separated by commas.
StringifyMembers(members, ind) ==
    LET first == ind \o "\"" \o members[1].k \o "\": " \o Stringify(members[1].v, ind)
    IN IF Len(members) = 1
       THEN first
       ELSE first \o ",\n" \o StringifyMembers(Tail(members), ind)

\* JSON.stringify(value, null, 2) of a value nested at indentation ind.  The
\* strings of the model hold no character that JSON escapes.
Stringify(value, ind) ==
    CASE value.t = "null" -> "null"
      [] value.t = "bool" -> IF value.b THEN "true" ELSE "false"
      [] value.t = "num" -> ToString(value.n)
      [] value.t = "str" -> "\"" \o value.s \o "\""
      [] value.t = "arr" ->
            IF value.items = <<>> THEN "[]"
            ELSE "[\n" \o StringifyItems(value.items, ind \o "  ") \o "\n" \o ind \o "]"
      [] value.t = "obj" ->
            IF value.members = <<>> THEN "{}"
            ELSE "{\n" \o StringifyMembers(value.members, ind \o "  ") \o "\n" \o ind \o "}"

JsonStringify(value) == Stringify(value, "")

Placeholder == "(No output data received from results API)"

\* index.ts 135: every output but undefined is stringified, null and strings too.
OutputContentIndex(output) ==
    IF output # Undefined THEN JsonStringify(output) ELSE Placeholder

\* part_000 133-142
OutputContentPart000(output) ==
    IF output = Undefined \/ output = JNull THEN Placeholder
    ELSE IF output.t = "str" THEN output.s
    ELSE JsonStringify(output)

OutputContent(b, output) ==
    IF b = "index" THEN OutputContentIndex(output) ELSE OutputContentPart000(output)

\* Bodies that retrieveRes.json() parses, as the values they parse to.
Payloads ==
    { JObj(<<>>),
      JObj(<<Member("output", JNull)>>),
      JObj(<<Member("output", JStr("done"))>>),
      JObj(<<Member("output", JObj(<<Member("x", JNum(1))>>))>>),
      JObj(<<Member("output", JArr(<<JNum(1), JStr("a"), JObj(<<>>)>>)), Member("error", JNull)>>),
      JObj(<<Member("output", JBool(FALSE))>>),
      JNull }

SyntaxError == JsError(<<Str("Unexpected token < in JSON at position 0")>>)

\* Bodies of an answer that is not ok: the text, and what JSON.parse makes of it
\* (NoValue: it throws).
ErrorBodies ==
    { [text |-> "Not Found", json |-> NoValue],
      [text |-> "{\"error\":\"result expired\"}",
       json |-> JObj(<<Member("error", JStr("result expired"))>>)],
      [text |-> "{\"error\":\"\"}", json |-> JObj(<<Member("error", JStr(""))>>)],
      [text |-> "null", json |-> JNull] }

\* part_000 116-120: errorJson.error || errorDetail, the text itself when parsing
\* or the property access throws.  A server-supplied error is a string.
ErrorDetail(body) ==
    IF body.json = NoValue \/ body.json = JNull THEN body.text
    ELSE LET e == Property(body.json, "error")
         IN IF e # Undefined /\ e.t = "str" /\ e.s # "" THEN e.s ELSE body.text

---------------------------------------------------------------------------
(* Startup: the top level of the entry point *)

\* The environment variables the entry point reads, in the order it tests them.
Required ==
    <<"MAKE_API_KEY", "MAKE_ZONE", "MAKE_TEAM", "RESULTS_API_URL", "RESULTS_API_SECRET_KEY">>

\* The values a variable is set to; the empty string is one of them.
EnvValues(name) ==
    CASE name = "MAKE_API_KEY" -> {"", "key"}
      [] name = "MAKE_ZONE" -> {"", "eu2.make.com"}
      [] name = "MAKE_TEAM" -> {"", "42", "abc", "12abc"}
      [] name = "RESULTS_API_URL" -> {"", "https://results.example", "https://results.example/"}
      [] name = "RESULTS_API_SECRET_KEY" -> {"", "secret"}

\* process.env of a launch: any of the variables set, each to one of its values.
Environments ==
    UNION { { e \in [S -> UNION {EnvValues(name) : name \in S}] :
                \A name \in S : e[name] \in EnvValues(name) } :
            S \in SUBSET {Required[k] : k \in 1..Len(Required)} }

\* smithery.yaml 5-15: a configuration with its three properties set.
SmitheryConfigs ==
    [makeApiKey : {"key"}, makeZone : {"eu2.make.com"}, makeTeamId : {"42", "abc"}]

\* smithery.yaml 19-29: the env of the command that starts the server.
CommandFunction(cfg) ==
    [MAKE_API_KEY |-> cfg.makeApiKey, MAKE_ZONE |-> cfg.makeZone, MAKE_TEAM |-> cfg.makeTeamId]

FullEnv ==
    [MAKE_API_KEY |-> "key", MAKE_ZONE |-> "eu2.make.com", MAKE_TEAM |-> "42",
     RESULTS_API_URL |-> "https://results.example/", RESULTS_API_SECRET_KEY |-> "secret"]

\* !process.env[name]: the variable is not set, or set to the empty string.
Not(e, name) == name \notin DOMAIN e \/ Len(e[name]) = 0

\* The characters of a string.
CharsOf(s) == [k \in 1..Len(s) |-> SubSeq(s, k, k)]

\* part_000 45: isNaN(teamId)
IsNaN(teamId) == teamId = NaN

\* s.replace(/\/$/, '')
StripTrailingSlash(s) ==
    IF Len(s) > 0 /\ SubSeq(s, Len(s), Len(s)) = "/" THEN SubSeq(s, 1, Len(s) - 1) ELSE s

\* part_000 44, 49-50: the module constants the handlers read.
ModuleConstants(e) ==
    [teamId |-> ParseInt(CharsOf(e["MAKE_TEAM"])),
     resultsApiUrl |-> StripTrailingSlash(e["RESULTS_API_URL"]),
     resultsApiSecretKey |-> e["RESULTS_API_SECRET_KEY"]]

\* part_000 22-48, index.ts 22-44: whether the top level calls process.exit(1)
\* before it sets the handlers.  index.ts does not test the parsed team id.
Fatal(b, e) ==
    \/ \E k \in 1..Len(Required) : Not(e, Required[k])
    \/ b = "part_000" /\ IsNaN(ParseInt(CharsOf(e["MAKE_TEAM"])))

\* The top level runs (part_000 22-172): the environment is validated, the
\* module constants are set, the handlers are registered and
\* server.connect(transport) is called.
Startup ==
    /\ phase = "starting"
    /\ IF Fatal(build, env)
       THEN phase' = "fatal" /\ config' = config
       ELSE phase' = "connecting" /\ config' = ModuleConstants(env)
    /\ UNCHANGED <<build, env, call, net, list, lnet>>

\* server.connect(transport) resolves (part_000 172-174).
ConnectResolve ==
    /\ phase = "connecting"
    /\ phase' = "connected"
    /\ UNCHANGED <<build, env, config, call, net, list, lnet>>

\* server.connect(transport) rejects (part_000 174-177): process.exit(1).
ConnectReject(err) ==
    /\ phase = "connecting"
    /\ phase' = "connectFailed"
    /\ UNCHANGED <<build, env, config, call, net, list, lnet>>

---------------------------------------------------------------------------
(* call-tool: the handler of CallToolRequestSchema *)

ExecIds == {"exec-123", "exec-9"}

\* The status of a trigger response, when it carries one.
TriggerStatuses == {"OK", "COMPLETED", "FAILED"}

\* What make.scenarios.run resolves with: { executionId, status? }.
RunResponses ==
    {[executionId |-> e] : e \in ExecIds}
        \cup {[executionId |-> e, status |-> st] : e \in ExecIds, st \in TriggerStatuses}

\* runResponse.status, undefined when the response carries none.
StatusOf(resp) == IF "status" \in DOMAIN resp THEN Str(resp.status) ELSE Undefined

\* index.ts 99: only COMPLETED and OK let the handler go on.
StatusAcceptedIndex(resp) == StatusOf(resp) \in {Str("COMPLETED"), Str("OK")}

\* part_000 99-102: the status is not read.
StatusAcceptedPart000(resp) == TRUE

StatusAccepted(b, resp) ==
    IF b = "index" THEN StatusAcceptedIndex(resp) ELSE StatusAcceptedPart000(resp)

\* index.ts 100
StatusFailure(resp) ==
    McpError("InternalError",
             <<Lit("Make scenario execution failed internally with status: "),
               IF StatusOf(resp) = Undefined THEN Lit("Unknown") ELSE StatusOf(resp),
               Lit(". Execution ID: "), Str(resp.executionId)>>)

\* `${resultsApiUrl}/retrieve/${executionId}`
RetrieveUrl(resultsApiUrl, executionId) ==
    <<Str(resultsApiUrl), Lit("/retrieve/"), Str(executionId)>>

HttpStatuses == {200, 404, 500}

\* A test that takes every answer for a success.
OkAnyStatus(status) == TRUE

\* Response.ok
Ok(status) == status \in 200..299

NotFound == 404

NotFoundText == ": Result not found or expired ("

\* The error of an answer that is not ok, without the case of 404.
RetrieveFailurePlain(status, executionId, detail) ==
    McpError("InternalError",
             <<Lit("Failed to retrieve results for execution ID "), Str(executionId),
               Lit(". Status: "), Num(status), Lit(". Detail: "), Str(detail)>>)

\* part_000 122-127.  The literal "(404)" of the first message is written as the
\* number between its parentheses.
RetrieveFailure(status, executionId, detail) ==
    IF status = NotFound
    THEN McpError("InternalError",
                  <<Lit("Failed to retrieve results for execution ID "), Str(executionId),
                    Lit(NotFoundText), Num(NotFound), Lit("). Detail: "), Str(detail)>>)
    ELSE RetrieveFailurePlain(status, executionId, detail)

\* retrievedData.output of a null body
NullOutputError == JsError(<<Lit("Cannot read properties of null (reading 'output')")>>)

\* The catch block with the execution id never appended.
CatchWithoutExecutionId(name, err, executionId) ==
    McpError(IF err.kind = "McpError" THEN err.code ELSE "InternalError",
             IF err.kind \in {"McpError", "Error"}
             THEN err.message
             ELSE <<Lit("An unknown error occurred: ")>> \o StringOf(err))

\* part_000 148-165: the error the catch block throws for the caught value err.
\* The first value of errorMessage, which names the tool, is overwritten on
\* every branch.
Catch(name, err, executionId) ==
    LET errorMessage ==
            IF err.kind \in {"McpError", "Error"}
            THEN err.message
            ELSE <<Lit("An unknown error occurred: ")>> \o StringOf(err)
        withId ==
            IF executionId # ""
            THEN errorMessage \o <<Lit(" (Make Execution ID: "), Str(executionId), Lit(")")>>
            ELSE errorMessage
    IN McpError(IF err.kind = "McpError" THEN err.code ELSE "InternalError", withId)

\* part_000 167-168
UnknownTool(name) == McpError("InvalidRequest", <<Lit("Unknown tool: "), Chars(name)>>)

CallIdle ==
    [pc |-> "idle", name |-> <<>>, scenarioIdStr |-> <<>>, executionId |-> "",
     runResponse |-> NoValue, retrieveRes |-> NoValue, retrievedData |-> NoValue,
     caught |-> NoValue, result |-> NoValue]

\* The handler's locals after the try block has thrown err.
Caught(c, err) ==
    [c EXCEPT !.pc = "failed", !.caught = err,
              !.result = [error |-> Catch(c.name, err, c.executionId)]]

RunCall(scenarioIdStr) == [op |-> "run", scenarioId |-> ParseInt(scenarioIdStr)]

\* A GET addressed by an execution id kept in module scope: the first one that
\* any invocation has received.
GetCallOfFirstExecution(executionId) ==
    LET has == {i \in DOMAIN call : call[i].executionId # ""}
        first == IF has = {} THEN executionId
                 ELSE call[CHOOSE i \in has : \A j \in has : i <= j].executionId
    IN [op |-> "get", url |-> RetrieveUrl(config.resultsApiUrl, first),
        apiKey |-> config.resultsApiSecretKey]

GetCall(executionId) ==
    [op |-> "get", url |-> RetrieveUrl(config.resultsApiUrl, executionId),
     apiKey |-> config.resultsApiSecretKey]

\* A call-tool request arrives: the name is tested and, when it matches, the
\* trigger call is issued (part_000 90-98); otherwise the request fails (167-168).
CallToolRequest(i, name) ==
    /\ phase = "connected"
    /\ call[i].pc = "idle"
    /\ IF ToolNameRegexTest(name)
       THEN /\ call' = [call EXCEPT ![i] = [@ EXCEPT !.pc = "awaitRun", !.name = name,
                                                     !.scenarioIdStr = Substring13(name)]]
            /\ net' = [net EXCEPT ![i] = Append(@, RunCall(Substring13(name)))]
       ELSE /\ call' = [call EXCEPT ![i] = [@ EXCEPT !.pc = "failed", !.name = name,
                                                     !.result = [error |-> UnknownTool(name)]]]
            /\ net' = net
    /\ UNCHANGED <<build, env, phase, config, list, lnet>>

\* make.scenarios.run resolves (part_000 99-111, index.ts 95-113): the execution
\* id is kept, index.ts checks the status, and the Results API GET is issued.
RunResolve(i, resp) ==
    /\ call[i].pc = "awaitRun"
    /\ LET c == [call[i] EXCEPT !.executionId = resp.executionId, !.runResponse = resp]
       IN IF StatusAccepted(build, resp)
          THEN /\ call' = [call EXCEPT ![i] = [c EXCEPT !.pc = "awaitFetch"]]
               /\ net' = [net EXCEPT ![i] = Append(@, GetCall(resp.executionId))]
          ELSE /\ call' = [call EXCEPT ![i] = Caught(c, StatusFailure(resp))]
               /\ net' = net
    /\ UNCHANGED <<build, env, phase, config, list, lnet>>

\* make.scenarios.run rejects and the handler calls it again.
RunRejectRetry(i, err) ==
    /\ call[i].pc = "awaitRun"
    /\ call' = call
    /\ net' = [net EXCEPT ![i] = Append(@, RunCall(call[i].scenarioIdStr))]
    /\ UNCHANGED <<build, env, phase, config, list, lnet>>

\* make.scenarios.run rejects: the catch block ends the invocation.
RunReject(i, err) ==
    /\ call[i].pc = "awaitRun"
    /\ call' = [call EXCEPT ![i] = Caught(@, err)]
    /\ UNCHANGED <<build, env, phase, config, net, list, lnet>>

\* fetch resolves with a response of some status (part_000 105-115, 130).
FetchResolve(i, status) ==
    /\ call[i].pc = "awaitFetch"
    /\ call' = [call EXCEPT ![i] =
                    [@ EXCEPT !.pc = IF Ok(status) THEN "awaitJson" ELSE "awaitText",
                              !.retrieveRes = [status |-> status, ok |-> Ok(status)]]]
    /\ UNCHANGED <<build, env, phase, config, net, list, lnet>>

\* fetch rejects (no answer).
FetchReject(i, err) ==
    /\ call[i].pc = "awaitFetch"
    /\ call' = [call EXCEPT ![i] = Caught(@, err)]
    /\ UNCHANGED <<build, env, phase, config, net, list, lnet>>

\* retrieveRes.text() resolves with the body of an answer that is not ok
\* (part_000 116-127).
TextResolve(i, body) ==
    /\ call[i].pc = "awaitText"
    /\ call' = [call EXCEPT ![i] =
                    Caught(@, RetrieveFailure(@.retrieveRes.status, @.executionId,
                                              ErrorDetail(body)))]
    /\ UNCHANGED <<build, env, phase, config, net, list, lnet>>

\* retrieveRes.text() rejects: the body could not be read.
TextReject(i, err) ==
    /\ call[i].pc = "awaitText"
    /\ call' = [call EXCEPT ![i] = Caught(@, err)]
    /\ UNCHANGED <<build, env, phase, config, net, list, lnet>>

\* retrieveRes.json() resolves with the parsed body (part_000 130-146).
JsonResolve(i, data) ==
    /\ call[i].pc = "awaitJson"
    /\ LET c == [call[i] EXCEPT !.retrievedData = data]
       IN call' = [call EXCEPT ![i] =
                    IF data = JNull
                    THEN Caught(c, NullOutputError)
                    ELSE [c EXCEPT !.pc = "done",
                                   !.result = [toolResult |->
                                        OutputContent(build, Property(data, "output"))]]]
    /\ UNCHANGED <<build, env, phase, config, net, list, lnet>>

\* retrieveRes.json() rejects: the body is no JSON, or could not be read.
JsonReject(i, err) ==
    /\ call[i].pc = "awaitJson"
    /\ call' = [call EXCEPT ![i] = Caught(@, err)]
    /\ UNCHANGED <<build, env, phase, config, net, list, lnet>>

NextCall ==
    \E i \in Inv :
        \/ \E name \in ToolNames : CallToolRequest(i, name)
        \/ \E resp \in RunResponses : RunResolve(i, resp)
        \/ \E err \in Rejections : RunReject(i, err)
        \/ \E status \in HttpStatuses : FetchResolve(i, status)
        \/ \E err \in Rejections : FetchReject(i, err)
        \/ \E body \in ErrorBodies : TextResolve(i, body)
        \/ \E err \in Rejections : TextReject(i, err)
        \/ \E data \in Payloads : JsonResolve(i, data)
        \/ \E err \in Rejections \cup {SyntaxError} : JsonReject(i, err)

\* The module constants of a server that started with a full environment.
Config ==
    [teamId |-> Num(42), resultsApiUrl |-> "https://results.example",
     resultsApiSecretKey |-> "secret"]

ListIdle ==
    [pc |-> "idle", scenarios |-> <<>>, onDemandScenarios |-> <<>>, branch |-> <<>>,
     caught |-> NoValue, result |-> NoValue]

InitCall ==
    /\ build \in Builds
    /\ env = FullEnv
    /\ phase = "connected"
    /\ config = Config
    /\ call = [i \in Inv |-> CallIdle]
    /\ net = [i \in Inv |-> <<>>]
    /\ list = ListIdle
    /\ lnet = <<>>

SpecCall == InitCall /\ [][NextCall]_vars

\* Several call-tool requests in flight at once.  Each trigger call gets an
\* execution id of its own, with a status or without.
ExecutionOf(i) == "exec-" \o ToString(i)

InterleavedRunResponses(i) ==
    { [executionId |-> ExecutionOf(i)], [executionId |-> ExecutionOf(i), status |-> "OK"] }

InterleavedPayloads ==
    { JObj(<<Member("output", JStr("done"))>>),
      JObj(<<Member("output", JObj(<<Member("x", JNum(1))>>))>> ) }

ConnectionRefused == JsError(<<Str("connect ECONNREFUSED")>>)

\* What a remote party does for invocation i: it answers or fails the call
\* that the invocation awaits.
Respond(i) ==
    \/ \E resp \in InterleavedRunResponses(i) : RunResolve(i, resp)
    \/ RunReject(i, ConnectionRefused)
    \/ \E status \in {200, NotFound} : FetchResolve(i, status)
    \/ FetchReject(i, ConnectionRefused)
    \/ TextResolve(i, [text |-> "Not Found", json |-> NoValue])
    \/ TextReject(i, ConnectionRefused)
    \/ \E data \in InterleavedPayloads : JsonResolve(i, data)
    \/ JsonReject(i, SyntaxError)

NextInterleaved ==
    \E i \in Interleaved :
        \/ \E name \in {ToolName(7), ToolName(305)} : CallToolRequest(i, name)
        \/ Respond(i)

InitInterleaved ==
    /\ build \in Builds
    /\ env = FullEnv
    /\ phase = "connected"
    /\ config = Config
    /\ call = [i \in Interleaved |-> CallIdle]
    /\ net = [i \in Interleaved |-> <<>>]
    /\ list = ListIdle
    /\ lnet = <<>>

SpecInterleaved == InitInterleaved /\ [][NextInterleaved]_vars

\* Every remote call is eventually answered or fails.
SpecInterleavedFair ==
    SpecInterleaved /\ \A i \in Interleaved : WF_vars(Respond(i))

---------------------------------------------------------------------------
(* Interface descriptors and remap (utils.ts) *)

Node(name, type) == [name |-> name, type |-> type]
Composite(name, type, spec) == [name |-> name, type |-> type, spec |-> spec]

UnsupportedTypeError(node) ==
    [kind |-> "Error", name |-> "UnsupportedTypeError",
     message |-> <<Lit("Unsupported type of "), Str(node.name), Lit(": "), Str(node.type)>>]

IsSchema(r) == "type" \in DOMAIN r

RECURSIVE Remap(_)
RECURSIVE RemapChildren(_)

\* The properties of a collection's children, in their order (ok), or the
\* error of the first child that has no schema.
RemapChildren(spec) ==
    IF spec = <<>> THEN [ok |-> TRUE, properties |-> <<>>]
    ELSE LET first == Remap(Head(spec))
             rest == RemapChildren(Tail(spec))
         IN IF ~IsSchema(first) THEN [ok |-> FALSE, error |-> first]
            ELSE IF ~rest.ok THEN rest
            ELSE [ok |-> TRUE,
                  properties |-> <<[name |-> Head(spec).name, schema |-> first]>>
                                    \o rest.properties]

\* remap(node): the parameter schema of a descriptor node, or the
\* UnsupportedTypeError it throws.
Remap(node) ==
    CASE node.type = "text" -> [type |-> "string"]
      [] node.type = "number" -> [type |-> "number"]
      [] node.type = "boolean" -> [type |-> "boolean"]
      [] node.type = "array" ->
            LET items == Remap(node.spec)
            IN IF IsSchema(items) THEN [type |-> "array", items |-> items] ELSE items
      [] node.type = "collection" ->
            LET children == RemapChildren(node.spec)
            IN IF children.ok
               THEN [type |-> "object", properties |-> children.properties]
               ELSE children.error
      [] OTHER -> UnsupportedTypeError(node)

\* What make.scenarios.interface resolves with: { input? }.
Interfaces ==
    { [other |-> <<>>],
      [input |-> <<>>],
      [input |-> <<Node("email", "text"),
                   Composite("items", "array", Node("item", "number"))>>],
      [input |-> <<Composite("address", "collection", <<Node("when", "timestamp")>>)>>],
      [input |-> <<Node("email", "text"), Composite("tags", "array", Node("tag", "date"))>>] }

---------------------------------------------------------------------------
(* list-tools: the handler of ListToolsRequestSchema *)

SchedulingTypes == {"on-demand", "indefinitely"}

\* name and description of the scenarios of the team: one with a description,
\* one with none, one with an empty one.
ScenarioText(id) ==
    CASE id = 7 -> [name |-> "Invoice", description |-> "monthly"]
      [] id = 12 -> [name |-> "Ping"]
      [] id = 305 -> [name |-> "Sync", description |-> ""]
      [] OTHER -> [name |-> "Report", description |-> "weekly"]

Scenario(id, type) == [id |-> id, text |-> ScenarioText(id), scheduling |-> [type |-> type]]

Scenarios == {Scenario(id, type) : id \in ScenarioIds, type \in SchedulingTypes}

\* What make.scenarios.list resolves with: scenarios of distinct ids, in any order.
ScenarioLists ==
    UNION { { l \in [1..n -> Scenarios] :
                /\ \A a, b \in 1..n : a # b => l[a].id # l[b].id
                /\ Cardinality({a \in 1..n : l[a].scheduling.type = "on-demand"})
                        <= MaxOnDemand } : n \in 0..MaxScenarios }

\* part_000 56
IsOnDemand(scenario) == scenario.scheduling.type = "on-demand"

\* part_000 67
Description(scenario) ==
    scenario.text.name \o
        (IF "description" \in DOMAIN scenario.text /\ scenario.text.description # ""
         THEN " (" \o scenario.text.description \o ")"
         ELSE "")

\* A root node that leaves the declared inputs out.
WrapperWithoutInputs(iface) == Composite("wrapper", "collection", <<>>)

\* part_000 63, 68-72: the root node that wraps the declared inputs.
Wrapper(iface) ==
    Composite("wrapper", "collection", IF "input" \in DOMAIN iface THEN iface.input ELSE <<>>)

Pending == [st |-> "pending"]

\* A branch whose catch block throws again what it caught.
BranchRethrow(interfaceError) == [st |-> "rejected", err |-> interfaceError]

\* part_000 74-77: the branch resolves with null.
BranchCatch(interfaceError) == [st |-> "null"]

\* A branch that answers a throwing remap with a tool that has no parameters.
BranchTryWithEmptySchema(scenario, iface) ==
    LET inputSchema == Remap(Wrapper(iface))
    IN [st |-> "tool",
        tool |-> [name |-> ToolName(scenario.id),
                  description |-> Description(scenario),
                  inputSchema |-> IF IsSchema(inputSchema) THEN inputSchema
                                  ELSE [type |-> "object", properties |-> <<>>]]]

\* part_000 61-77: what the branch of a scenario settles with once its
\* interface has arrived.
BranchTry(scenario, iface) ==
    LET inputSchema == Remap(Wrapper(iface))
    IN IF IsSchema(inputSchema)
       THEN [st |-> "tool",
             tool |-> [name |-> ToolName(scenario.id),
                       description |-> Description(scenario),
                       inputSchema |-> inputSchema]]
       ELSE BranchCatch(inputSchema)

IsTool(b) == b.st = "tool"

ToolsOf(branches) ==
    LET valid == SelectSeq(branches, IsTool)
    IN [k \in 1..Len(valid) |-> valid[k].tool]

IsAnswer(e) == e.op \in {"interface.ok", "interface.fail"}

\* The tools in the order in which the branches settled.
ValidToolsByCompletion(l) ==
    LET answers == SelectSeq(lnet, IsAnswer)
    IN ToolsOf([k \in 1..Len(answers) |-> l.branch[answers[k].branch]])

\* part_000 59, 80: Promise.all keeps the order of the branches; null is dropped.
ValidTools(l) == ToolsOf(l.branch)

\* The outer catch block with the cause left out.
ListCatchBare(error) ==
    McpError("InternalError", <<Lit("Failed to list Make scenarios: ")>>)

\* part_000 83-86
ListCatch(error) ==
    McpError("InternalError", <<Lit("Failed to list Make scenarios: ")>> \o StringOf(error))

InterfaceCall(k, scenario) == [op |-> "interface", branch |-> k, scenarioId |-> scenario.id]

\* A list-tools request arrives: make.scenarios.list(teamId) is called (part_000 55).
ListToolsRequest ==
    /\ phase = "connected"
    /\ list.pc = "idle"
    /\ list' = [list EXCEPT !.pc = "listing"]
    /\ lnet' = Append(lnet, [op |-> "list", teamId |-> config.teamId])
    /\ UNCHANGED <<build, env, phase, config, call, net>>

\* make.scenarios.list resolves (part_000 55-78): the scenarios are filtered and
\* the interface of each one left is requested, all before any answer is read.
ListResolve(scenarios) ==
    /\ list.pc = "listing"
    /\ LET onDemandScenarios == SelectSeq(scenarios, IsOnDemand)
       IN /\ list' = [list EXCEPT !.pc = "fanout", !.scenarios = scenarios,
                                   !.onDemandScenarios = onDemandScenarios,
                                   !.branch = [k \in 1..Len(onDemandScenarios) |-> Pending]]
          /\ lnet' = lnet \o <<[op |-> "list.ok"]>>
                          \o [k \in 1..Len(onDemandScenarios) |->
                                InterfaceCall(k, onDemandScenarios[k])]
    /\ UNCHANGED <<build, env, phase, config, call, net>>

\* make.scenarios.list rejects (part_000 83-86).
ListReject(err) ==
    /\ list.pc = "listing"
    /\ list' = [list EXCEPT !.pc = "failed", !.caught = err,
                             !.result = [error |-> ListCatch(err)]]
    /\ lnet' = Append(lnet, [op |-> "list.fail", err |-> err])
    /\ UNCHANGED <<build, env, phase, config, call, net>>

\* make.scenarios.interface resolves for branch k (part_000 62-73).
InterfaceResolve(k, iface) ==
    /\ list.pc = "fanout"
    /\ k \in 1..Len(list.branch)
    /\ list.branch[k] = Pending
    /\ list' = [list EXCEPT !.branch[k] = BranchTry(list.onDemandScenarios[k], iface)]
    /\ lnet' = Append(lnet, [op |-> "interface.ok", branch |-> k, iface |-> iface])
    /\ UNCHANGED <<build, env, phase, config, call, net>>

\* make.scenarios.interface rejects for branch k (part_000 74-77).
InterfaceReject(k, err) ==
    /\ list.pc = "fanout"
    /\ k \in 1..Len(list.branch)
    /\ list.branch[k] = Pending
    /\ list' = [list EXCEPT !.branch[k] = BranchCatch(err)]
    /\ lnet' = Append(lnet, [op |-> "interface.fail", branch |-> k])
    /\ UNCHANGED <<build, env, phase, config, call, net>>

Rejected(l) == {k \in 1..Len(l.branch) : l.branch[k].st = "rejected"}

\* A join that resolves as soon as one branch has settled.
ListJoinWhenAnySettled ==
    /\ list.pc = "fanout"
    /\ \/ list.branch = <<>>
       \/ \E k \in 1..Len(list.branch) : list.branch[k] # Pending
    /\ list' = [list EXCEPT !.pc = "done", !.result = [tools |-> ValidTools(list)]]
    /\ lnet' = lnet
    /\ UNCHANGED <<build, env, phase, config, call, net>>

\* Promise.all settles (part_000 59, 79-82): it resolves once every branch has
\* resolved, and rejects as soon as one branch rejects, which the outer catch
\* block turns into the failure of the request.
ListJoin ==
    /\ list.pc = "fanout"
    /\ \/ Rejected(list) # {}
       \/ \A k \in 1..Len(list.branch) : list.branch[k] # Pending
    /\ list' =
         IF Rejected(list) # {}
         THEN LET k == CHOOSE r \in Rejected(list) : TRUE
              IN [list EXCEPT !.pc = "failed", !.caught = list.branch[k].err,
                              !.result = [error |-> ListCatch(list.branch[k].err)]]
         ELSE [list EXCEPT !.pc = "done", !.result = [tools |-> ValidTools(list)]]
    /\ lnet' = lnet
    /\ UNCHANGED <<build, env, phase, config, call, net>>

NextList ==
    \/ ListToolsRequest
    \/ \E scenarios \in ScenarioLists : ListResolve(scenarios)
    \/ \E err \in Rejections : ListReject(err)
    \/ \E k \in 1..MaxOnDemand, iface \in Interfaces : InterfaceResolve(k, iface)
    \/ \E k \in 1..MaxOnDemand, err \in Rejections : InterfaceReject(k, err)
    \/ ListJoin

InitList == InitCall

SpecList == InitList /\ [][NextList]_vars

\* A launch of the server, up to the arrival of the first requests.
InitStart ==
    /\ build \in Builds
    /\ env \in Environments \cup {CommandFunction(cfg) : cfg \in SmitheryConfigs}
    /\ phase = "starting"
    /\ config = NoValue
    /\ call = [i \in Inv |-> CallIdle]
    /\ net = [i \in Inv |-> <<>>]
    /\ list = ListIdle
    /\ lnet = <<>>

NextStart ==
    \/ Startup
    \/ ConnectResolve
    \/ \E err \in Rejections : ConnectReject(err)
    \/ ListToolsRequest
    \/ \E i \in Inv, name \in ToolNames : CallToolRequest(i, name)

SpecStart == InitStart /\ [][NextStart]_vars

\* list-tools for a team with one on-demand scenario, then call-tool requests
\* for the names it returned.
NextNaming ==
    \/ ListToolsRequest
    \/ \E id \in 0..MaxScenarioId : ListResolve(<<Scenario(id, "on-demand")>>)
    \/ InterfaceResolve(1, [input |-> <<>>])
    \/ ListJoin
    \/ \E i \in Inv :
            /\ list.pc = "done"
            /\ \E t \in 1..Len(list.result.tools) : CallToolRequest(i, list.result.tools[t].name)

SpecNaming == InitCall /\ [][NextNaming]_vars

\* The server with both handlers.
Init == InitCall

Next == NextCall \/ NextList

Spec == Init /\ [][Next]_vars

---------------------------------------------------------------------------
(* Properties of list-tools *)

ListEvents(op) == {k \in 1..Len(lnet) : lnet[k].op = op}

\* The interface of branch k arrived and remap made a schema of it.
BranchSucceeded(k) ==
    \E a \in ListEvents("interface.ok") :
        lnet[a].branch = k /\ IsSchema(Remap(Wrapper(lnet[a].iface)))

\* The interface of branch k did not arrive, or remap threw on it.
BranchFailed(k) ==
    \/ \E a \in ListEvents("interface.fail") : lnet[a].branch = k
    \/ \E a \in ListEvents("interface.ok") :
            lnet[a].branch = k /\ ~IsSchema(Remap(Wrapper(lnet[a].iface)))

\* The interface of the scenario of this id was requested, arrived and was remapped.
FetchedAndRemapped(id) ==
    \E c \in ListEvents("interface") :
        lnet[c].scenarioId = id /\ BranchSucceeded(lnet[c].branch)

\* The listed positions whose scenario is on-demand and has its schema.
GoodPositions ==
    {p \in 1..Len(list.scenarios) :
        /\ list.scenarios[p].scheduling.type = "on-demand"
        /\ FetchedAndRemapped(list.scenarios[p].id)}

PositionOf(tool) ==
    CHOOSE p \in 1..Len(list.scenarios) : ToolName(list.scenarios[p].id) = tool.name

\* C1: a list-tools call that succeeds returns one tool for each listed scenario
\* that is on-demand and whose interface was fetched and remapped, no tool for
\* any other scenario, and the tools in the order of the listed scenarios,
\* whatever the order in which the interface answers arrived.
C1_ToolsAreTheOnDemandScenariosInListedOrder ==
    list.pc = "done" =>
        LET tools == list.result.tools
        IN /\ Len(tools) = Cardinality(GoodPositions)
           /\ \A p \in GoodPositions :
                \E t \in 1..Len(tools) : tools[t].name = ToolName(list.scenarios[p].id)
           /\ \A t \in 1..Len(tools) :
                \E p \in GoodPositions : tools[t].name = ToolName(list.scenarios[p].id)
           /\ \A t1, t2 \in 1..Len(tools) :
                t1 < t2 => PositionOf(tools[t1]) < PositionOf(tools[t2])
           /\ \A p \in 1..Len(list.scenarios) :
                list.scenarios[p].scheduling.type # "on-demand" =>
                    \A t \in 1..Len(tools) : tools[t].name # ToolName(list.scenarios[p].id)

\* Three scenarios listed, the middle one not on-demand, the interface of the
\* last one answered before that of the first one, and both tools returned.
C1_Witness ==
    /\ list.pc = "done"
    /\ Len(list.scenarios) = 3
    /\ list.scenarios[1].scheduling.type = "on-demand"
    /\ list.scenarios[2].scheduling.type # "on-demand"
    /\ list.scenarios[3].scheduling.type = "on-demand"
    /\ Len(list.result.tools) = 2
    /\ \E a, b \in ListEvents("interface.ok") :
            a < b /\ lnet[a].branch = 2 /\ lnet[b].branch = 1

\* C2: when the interface of some on-demand scenarios cannot be fetched or
\* remapped, the tools returned are those of exactly the other on-demand
\* scenarios, and list-tools fails only when the list call itself was rejected.
C2_FailedScenariosAreDroppedAndDiscoverySucceeds ==
    /\ list.pc = "failed" => ListEvents("list.fail") # {}
    /\ list.pc = "done" =>
        \A k \in 1..Len(list.onDemandScenarios) :
            /\ BranchFailed(k) # BranchSucceeded(k)
            /\ BranchFailed(k) <=>
                    \A t \in 1..Len(list.result.tools) :
                        list.result.tools[t].name # ToolName(list.onDemandScenarios[k].id)
    /\ (list.pc = "fanout" /\ \A k \in 1..Len(list.branch) : BranchFailed(k) \/ BranchSucceeded(k))
            => ENABLED ListJoin

\* The interface of the first on-demand scenario was rejected, and the tool of
\* the second one is returned.
C2_Witness ==
    /\ list.pc = "done"
    /\ \E a \in ListEvents("interface.fail") : lnet[a].branch = 1
    /\ Len(list.onDemandScenarios) = 2
    /\ Len(list.result.tools) = 1
    /\ list.result.tools[1].name = ToolName(list.onDemandScenarios[2].id)

\* The text of a thrown value.
CauseText(err) == IF err.kind = "value" THEN <<Str(err.text)>> ELSE err.message

\* C3: when the list call is rejected, list-tools fails with an InternalError
\* whose message holds the text of the rejection, returns no tools and has
\* requested no interface.
C3_ListFailureIsInternalErrorWithCause ==
    \A f \in ListEvents("list.fail") :
        /\ list.pc = "failed"
        /\ DOMAIN list.result = {"error"}
        /\ list.result.error.kind = "McpError"
        /\ list.result.error.code = "InternalError"
        /\ IncludesAll(list.result.error.message, CauseText(lnet[f].err))
        /\ ListEvents("interface") = {}

C3_Witness ==
    /\ list.pc = "failed"
    /\ \E f \in ListEvents("list.fail") : lnet[f].err.kind = "Error"

\* The top-level inputs an interface declares.
DeclaredInputs(iface) == IF "input" \in DOMAIN iface THEN iface.input ELSE <<>>

\* C12: the inputSchema of the tool of an on-demand scenario whose interface
\* arrived is the schema of a collection whose children are the declared
\* top-level inputs, in their order, and the empty list when the interface
\* declares no input or has no input list: it is always an object schema.
C12_InputSchemaIsTheCollectionOfTheDeclaredInputs ==
    /\ \A a \in ListEvents("interface.ok") :
            LET k == lnet[a].branch
                declared == DeclaredInputs(lnet[a].iface)
            IN (\A j \in 1..Len(declared) : IsSchema(Remap(declared[j]))) =>
                    /\ list.branch[k].st = "tool"
                    /\ list.branch[k].tool.inputSchema.type = "object"
                    /\ Len(list.branch[k].tool.inputSchema.properties) = Len(declared)
                    /\ \A j \in 1..Len(declared) :
                            list.branch[k].tool.inputSchema.properties[j] =
                                [name |-> declared[j].name, schema |-> Remap(declared[j])]
    /\ list.pc = "done" =>
            \A t \in 1..Len(list.result.tools) :
                list.result.tools[t].inputSchema.type = "object"

\* Two tools are returned: one of an interface without input list, whose
\* schema is the object without properties, and one of an interface with two
\* inputs.
C12_Witness ==
    /\ list.pc = "done"
    /\ Len(list.result.tools) = 2
    /\ \E a, b \in ListEvents("interface.ok") :
            /\ lnet[a].branch = 1
            /\ "input" \notin DOMAIN lnet[a].iface
            /\ lnet[b].branch = 2
            /\ Len(DeclaredInputs(lnet[b].iface)) = 2
    /\ list.result.tools[1].inputSchema = [type |-> "object", properties |-> <<>>]
    /\ Len(list.result.tools[2].inputSchema.properties) = 2

\* The type tags the remapper knows.
Recognized == {"text", "number", "boolean", "array", "collection"}

\* The nodes of a descriptor tree whose type tag the remapper does not know.
RECURSIVE Unrecognized(_)
Unrecognized(node) ==
    IF node.type \notin Recognized THEN {node}
    ELSE IF node.type = "array" THEN Unrecognized(node.spec)
    ELSE IF node.type = "collection"
         THEN UNION {Unrecognized(node.spec[j]) : j \in 1..Len(node.spec)}
    ELSE {}

\* C13: when the descriptor tree of an interface holds a node of an
\* unrecognized type, remap fails with an UnsupportedTypeError that names such
\* a node, and no tool with a schema is made of that interface.
C13_UnrecognizedTypeFailsWithUnsupportedTypeError ==
    \A a \in ListEvents("interface.ok") :
        LET k == lnet[a].branch
            root == [name |-> "wrapper", type |-> "collection",
                     spec |-> DeclaredInputs(lnet[a].iface)]
            thrown == Remap(root)
        IN Unrecognized(root) # {} =>
                /\ DOMAIN thrown = {"kind", "name", "message"}
                /\ thrown.name = "UnsupportedTypeError"
                /\ \E node \in Unrecognized(root) :
                        /\ Includes(thrown.message, Str(node.name))
                        /\ Includes(thrown.message, Str(node.type))
                /\ list.branch[k].st # "tool"
                /\ list.pc = "done" =>
                        \A t \in 1..Len(list.result.tools) :
                            list.result.tools[t].name # ToolName(list.onDemandScenarios[k].id)

\* An interface whose second input is an array of elements of an unknown type
\* has arrived, and list-tools has answered without a tool for it.
C13_Witness ==
    /\ list.pc = "done"
    /\ Len(list.onDemandScenarios) = 1
    /\ list.result.tools = <<>>
    /\ \E a \in ListEvents("interface.ok") :
            /\ Len(DeclaredInputs(lnet[a].iface)) = 2
            /\ DeclaredInputs(lnet[a].iface)[2].type = "array"
            /\ DeclaredInputs(lnet[a].iface)[2].spec.type = "date"

\* The answers of the interface calls.
InterfaceAnswers == ListEvents("interface.ok") \cup ListEvents("interface.fail")

\* C14: the interface calls of all on-demand scenarios are issued before the
\* answer of any of them is awaited, one per scenario, and list-tools answers
\* only when the call of every scenario has been answered and its branch has
\* settled.
C14_FanOutIsIssuedAtOnceAndJoinedWhenAllSettled ==
    /\ \A c \in ListEvents("interface") : \A a \in InterfaceAnswers : c < a
    /\ ListEvents("list.ok") # {} =>
            \A k \in 1..Len(list.onDemandScenarios) :
                Cardinality({c \in ListEvents("interface") :
                                /\ lnet[c].branch = k
                                /\ lnet[c].scenarioId = list.onDemandScenarios[k].id}) = 1
    /\ list.pc \in {"done", "failed"} =>
            \A c \in ListEvents("interface") :
                /\ \E a \in InterfaceAnswers : lnet[a].branch = lnet[c].branch
                /\ list.branch[lnet[c].branch].st \in {"tool", "null"}

\* Two interface calls were issued, the second one was answered first and
\* the first one was rejected, and list-tools has answered.
C14_Witness ==
    /\ list.pc = "done"
    /\ Cardinality(ListEvents("interface")) = 2
    /\ \E a \in ListEvents("interface.ok"), b \in ListEvents("interface.fail") :
            a < b /\ lnet[a].branch = 2 /\ lnet[b].branch = 1

---------------------------------------------------------------------------
(* Properties of call-tool *)

Issued(i, op) == {k \in 1..Len(net[i]) : net[i][k].op = op}

Ended(i) == call[i].pc \in {"done", "failed"}

HasError(i) == call[i].result # NoValue /\ DOMAIN call[i].result = {"error"}

HasToolResult(i) == call[i].result # NoValue /\ DOMAIN call[i].result = {"toolResult"}

MessageOf(i) == call[i].result.error.message

\* The prefix run_scenario_ followed by one or more decimal digits.
MatchesNamePattern(name) ==
    \E n \in 1..Len(name) :
        /\ Len(name) = Len(Prefix) + n
        /\ \A k \in 1..Len(Prefix) : name[k] = Prefix[k]
        /\ \A k \in 1..n :
                name[Len(Prefix) + k] \in {"0","1","2","3","4","5","6","7","8","9"}

\* C4: a call-tool request whose name is not run_scenario_ followed by digits
\* fails with InvalidRequest, its message names the tool, and no remote call
\* is made for it.
C4_UnknownToolIsInvalidRequestBeforeAnyCall ==
    \A i \in Inv :
        (call[i].pc # "idle" /\ ~MatchesNamePattern(call[i].name)) =>
            /\ call[i].pc = "failed"
            /\ HasError(i)
            /\ call[i].result.error.code = "InvalidRequest"
            /\ Includes(MessageOf(i), Chars(call[i].name))
            /\ net[i] = <<>>

\* A name that has the prefix and a digit, then a letter, has been refused.
C4_Witness ==
    \E i \in Inv :
        /\ call[i].pc = "failed"
        /\ call[i].name = Prefix \o <<"7", "x">>
        /\ call[i].result.error.code = "InvalidRequest"

\* The trigger call of invocation i was rejected.
TriggerFailed(i) ==
    /\ call[i].pc = "failed"
    /\ call[i].runResponse = NoValue
    /\ Issued(i, "run") # {}

NamesScenario(i, message) ==
    \/ Includes(message, Chars(call[i].scenarioIdStr))
    \/ Includes(message, Chars(call[i].name))
    \/ Includes(message, ParseInt(call[i].scenarioIdStr))

\* C5: when the trigger call is rejected, the invocation fails with an
\* InternalError whose message holds the scenario identifier and the text of
\* the rejection, and no Results API request is issued.
C5_TriggerFailureNamesScenarioAndCause ==
    \A i \in Inv :
        TriggerFailed(i) =>
            /\ HasError(i)
            /\ call[i].result.error.code = "InternalError"
            /\ NamesScenario(i, MessageOf(i))
            /\ IncludesAll(MessageOf(i), CauseText(call[i].caught))
            /\ Issued(i, "get") = {}

\* C6: when the Results API answers with a status that is not a success, the
\* invocation returns no toolResult and fails with an InternalError whose
\* message holds the status and the execution id, and for 404 the words
\* "not found or expired".
C6_NonSuccessStatusIsReportedWithExecutionId ==
    \A i \in Inv :
        (Ended(i) /\ call[i].retrieveRes # NoValue /\ ~call[i].retrieveRes.ok) =>
            /\ HasError(i)
            /\ call[i].result.error.code = "InternalError"
            /\ Includes(MessageOf(i), Num(call[i].retrieveRes.status))
            /\ Includes(MessageOf(i), Str(call[i].runResponse.executionId))
            /\ call[i].retrieveRes.status = 404 =>
                    Includes(MessageOf(i), Lit(": Result not found or expired ("))

\* The text the claim gives for an output: the placeholder, the string itself,
\* or the indented serialization.
NormalizedOutput(output) ==
    IF output = Undefined \/ output = JNull
    THEN "(No output data received from results API)"
    ELSE IF output.t = "str" THEN output.s
    ELSE JsonStringify(output)

\* C7: the toolResult of an invocation is the placeholder when the payload has
\* no output or a null one, the output itself when it is a string, and the
\* indented JSON serialization of any other output.
C7_ToolResultIsTheNormalizedOutput ==
    \A i \in Inv :
        call[i].pc = "done" =>
            /\ HasToolResult(i)
            /\ call[i].result.toolResult =
                    NormalizedOutput(Property(call[i].retrievedData, "output"))

\* C8: every error of an invocation whose trigger call returned an execution id
\* holds that execution id in its message.
C8_ErrorsAfterTriggerHoldExecutionId ==
    \A i \in Inv :
        (call[i].pc = "failed" /\ call[i].runResponse # NoValue) =>
            /\ HasError(i)
            /\ Includes(MessageOf(i), Str(call[i].runResponse.executionId))

\* The body of a successful answer was no JSON.
C8_Witness ==
    \E i \in Inv :
        /\ call[i].pc = "failed"
        /\ call[i].runResponse # NoValue
        /\ call[i].retrieveRes # NoValue
        /\ call[i].retrieveRes.ok
        /\ call[i].caught = SyntaxError

\* C9: an invocation calls runScenario at most once and the Results API at most
\* once, the latter only after the trigger call has returned, and once it has
\* failed it issues no further remote call and stays failed.
C9_NoRetry ==
    /\ [](\A i \in Inv :
            /\ Cardinality(Issued(i, "run")) <= 1
            /\ Cardinality(Issued(i, "get")) <= 1
            /\ call[i].runResponse = NoValue => Issued(i, "get") = {})
    /\ [][\A i \in Inv :
            call[i].pc = "failed" => (call'[i] = call[i] /\ net'[i] = net[i])]_vars

\* The fetch was rejected after one trigger call and one GET.
C9_Witness ==
    \E i \in Inv :
        /\ call[i].pc = "failed"
        /\ call[i].runResponse # NoValue
        /\ call[i].retrieveRes = NoValue
        /\ Len(net[i]) = 2

\* C10: once the trigger call has returned an execution id, the Results API GET
\* for that execution id has been issued, whether or not the response carries
\* a status.
C10_GetFollowsEveryTriggerResponse ==
    \A i \in Inv :
        call[i].runResponse # NoValue =>
            \E g \in Issued(i, "get") :
                Includes(net[i][g].url, Str(call[i].runResponse.executionId))

\* The execution ids that invocations other than i have received.
ForeignExecutionIds(i) ==
    {call[j].executionId : j \in {j \in DOMAIN call : j # i /\ call[j].executionId # ""}}

\* C15: with call-tool invocations interleaved at their awaits, the GET of an
\* invocation is addressed by the execution id its own trigger call returned,
\* the trigger call is made for the scenario its own name holds, its error
\* holds its own execution id and no other one, and its toolResult is made of
\* the payload it retrieved itself.
C15_InterleavedInvocationsKeepTheirOwnExecutionId ==
    \A i \in DOMAIN call :
        /\ \A g \in Issued(i, "get") :
                /\ call[i].runResponse # NoValue
                /\ net[i][g].url = <<Str(config.resultsApiUrl), Lit("/retrieve/"),
                                     Str(call[i].runResponse.executionId)>>
        /\ \A t \in Issued(i, "run") :
                net[i][t].scenarioId = ParseInt(Substring13(call[i].name))
        /\ (call[i].pc = "failed" /\ call[i].runResponse # NoValue) =>
                /\ Includes(MessageOf(i), Str(call[i].runResponse.executionId))
                /\ \A e \in ForeignExecutionIds(i) \ {call[i].runResponse.executionId} :
                        ~Includes(MessageOf(i), Str(e))
        /\ call[i].pc = "done" =>
                call[i].result =
                    [toolResult |-> OutputContent(build, Property(call[i].retrievedData, "output"))]

\* Two invocations for different scenarios with different execution ids; each
\* has issued its GET, the first one has its toolResult and the second one has
\* failed.
C15_Witness ==
    /\ DOMAIN call = {1, 2}
    /\ call[1].pc = "done"
    /\ call[2].pc = "failed"
    /\ call[1].name # call[2].name
    /\ call[1].executionId # call[2].executionId
    /\ Issued(1, "get") # {}
    /\ Issued(2, "get") # {}

\* The remote calls of invocation i, in the order in which it issued them.
CallsOf(i) == [k \in 1..Len(net[i]) |-> net[i][k].op]

\* C17: provided every remote call is eventually answered or fails, an
\* invocation that has started eventually ends; it ends with a toolResult or
\* with an McpError, never with both and never changing afterwards; and it has
\* a toolResult only when the trigger call and then the Results API GET were
\* issued, in that order, and both succeeded.
C17_InvocationEndsWithOneOutcome ==
    /\ [](\A i \in Interleaved :
            /\ ~Ended(i) => call[i].result = NoValue
            /\ call[i].pc = "failed" =>
                    /\ DOMAIN call[i].result = {"error"}
                    /\ call[i].result.error.kind = "McpError"
            /\ call[i].pc = "done" <=> HasToolResult(i)
            /\ HasToolResult(i) =>
                    /\ CallsOf(i) = <<"run", "get">>
                    /\ call[i].runResponse # NoValue
                    /\ call[i].retrieveRes # NoValue
                    /\ call[i].retrieveRes.status >= 200
                    /\ call[i].retrieveRes.status < 300
                    /\ call[i].retrievedData # NoValue)
    /\ [][\A i \in Interleaved : Ended(i) => call'[i] = call[i]]_vars
    /\ \A i \in Interleaved : (call[i].pc # "idle") ~> Ended(i)

\* One invocation has ended with a toolResult after its two calls, the other
\* one with an error after the Results API answered 404.
C17_Witness ==
    /\ DOMAIN call = {1, 2}
    /\ HasToolResult(1)
    /\ CallsOf(1) = <<"run", "get">>
    /\ HasError(2)
    /\ call[2].retrieveRes # NoValue
    /\ call[2].retrieveRes.status = 404

\* C16: the name list-tools derives for the scenario of id n is accepted by
\* call-tool, which then calls runScenario with n itself, and it is the name
\* of no scenario of another id.
C16_ToolNameRoundTrips ==
    \A i \in Inv :
        (list.pc = "done" /\ call[i].pc # "idle") =>
            LET n == list.onDemandScenarios[1].id
            IN /\ list.result.tools[1].name = call[i].name
               /\ SubSeq(call[i].name, 1, 13) =
                        <<"r","u","n","_","s","c","e","n","a","r","i","o","_">>
               /\ call[i].pc = "awaitRun"
               /\ net[i] = <<[op |-> "run", scenarioId |-> [num |-> n]]>>
               /\ \A m \in 0..MaxScenarioId :
                        m # n => list.result.tools[1].name # Prefix \o NumberToString(m)

\* The tool of scenario 105 was listed and called, and the trigger call for
\* 105 is awaited.
C16_Witness ==
    /\ list.pc = "done"
    /\ list.onDemandScenarios[1].id = 105
    /\ \E i \in Inv :
            /\ call[i].pc = "awaitRun"
            /\ call[i].scenarioIdStr = <<"1", "0", "5">>

---------------------------------------------------------------------------
(* Properties of startup *)

\* A required variable is not set, or MAKE_TEAM has no leading integer.
BadEnvironment ==
    \/ \E name \in {"MAKE_API_KEY", "MAKE_ZONE", "MAKE_TEAM", "RESULTS_API_URL",
                     "RESULTS_API_SECRET_KEY"} : name \notin DOMAIN env
    \/ Len(env["MAKE_TEAM"]) = 0
    \/ SubSeq(env["MAKE_TEAM"], 1, 1) \notin {"0","1","2","3","4","5","6","7","8","9"}

\* C11: when a required configuration value is absent at startup, or the team
\* identifier does not parse to an integer, the process exits before the
\* transport is connected: no list-tools or call-tool request is handled, and
\* listScenarios is never called with a team id that is no integer.
C11_BadConfigurationIsFatalBeforeConnect ==
    /\ (BadEnvironment /\ phase # "starting") =>
            /\ phase = "fatal"
            /\ list.pc = "idle"
            /\ \A i \in Inv : call[i].pc = "idle"
    /\ \A k \in ListEvents("list") :
            DOMAIN lnet[k].teamId = {"num"} /\ lnet[k].teamId.num \in Nat

\* The environments smithery.yaml's commandFunction makes of a configuration
\* with makeApiKey, makeZone and makeTeamId set.
LaunchedBySmithery ==
    /\ DOMAIN env = {"MAKE_API_KEY", "MAKE_ZONE", "MAKE_TEAM"}
    /\ env["MAKE_API_KEY"] = "key"
    /\ env["MAKE_ZONE"] = "eu2.make.com"
    /\ env["MAKE_TEAM"] = "42"

\* C18: a server launched with the environment of smithery.yaml's
\* commandFunction passes the startup validation: once the top level has run,
\* the server is connecting or connected (or the transport refused to connect).
C18_SmitheryLaunchPassesStartupValidation ==
    (LaunchedBySmithery /\ phase # "starting") =>
        phase \in {"connecting", "connected", "connectFailed"}

====
